---------------------------- MODULE Spec2Model ----------------------------
(***************************************************************************)
(* A model of the valuation engine of alacran (src/src/instruments):       *)
(* monetary values and their addition, the two conversion tables, the      *)
(* compounding interest formula, Item::assess, Book and the Risk           *)
(* decorator.                                                              *)
(*                                                                         *)
(* f64 amounts are modelled as exact rationals <<n, d>> in lowest terms    *)
(* (d > 0); timestamps and durations are integer ticks.  powf is computed  *)
(* exactly on inputs whose result is rational.                             *)
(***************************************************************************)
EXTENDS Integers, Sequences, FiniteSets, TLC

VARIABLES
    mappings,   \* value.rs ConversionTable.mappings (HashMap of HashMaps)
    freed,      \* value.rs: the table has been leaked to &'static (free())
    regLog,     \* history: the add_conversion calls made on the value.rs table
    exchange,   \* convert.rs ConversionTable.mappings (the Vec inside the RwLock)
    exLog,      \* history: the add_conversion calls made on the convert.rs table
    lock,       \* convert.rs: the RwLock's state [writer, readers]
    pc,         \* convert.rs: each thread's position
    call,       \* convert.rs: each thread's current call (arguments, locals)
    item,       \* an Item under valuation
    appended,   \* history: the add_delta calls made on item, in call order
    entries,    \* Book.entries, in slot order
    risk,       \* the Risk layers wrapped around item, innermost first
    out         \* the outcome of the last operation

vars == <<mappings, freed, regLog, exchange, exLog, lock, pc, call,
          item, appended, entries, risk, out>>

-----------------------------------------------------------------------------
(* Bounds of the model *)

MaxRegs == 2
MaxDeltas == 2
MaxTime == 3
MaxEntries == 3
MaxLayers == 2
MaxCalls == 2

-----------------------------------------------------------------------------
(* f64 arithmetic, on exact rationals *)

Abs(n) == IF n < 0 THEN -n ELSE n

RECURSIVE GCD(_, _)
GCD(a, b) == IF b = 0 THEN a ELSE GCD(b, a % b)

Rat(n, d) ==
    LET g == GCD(Abs(n), Abs(d))
        s == IF d < 0 THEN -1 ELSE 1
    IN  <<(s * n) \div g, (s * d) \div g>>

Zero == <<0, 1>>
One == <<1, 1>>

RAdd(x, y) == Rat(x[1] * y[2] + y[1] * x[2], x[2] * y[2])
RSub(x, y) == Rat(x[1] * y[2] - y[1] * x[2], x[2] * y[2])
RMul(x, y) == Rat(x[1] * y[1], x[2] * y[2])
RInv(x) == Rat(x[2], x[1])
RDiv(x, y) == RMul(x, RInv(y))
RLt(x, y) == x[1] * y[2] < y[1] * x[2]

RECURSIVE RPow(_, _)
RPow(x, k) ==
    IF k = 0 THEN One
    ELSE IF k < 0 THEN RInv(RPow(x, -k))
    ELSE RMul(x, RPow(x, k - 1))

RootCandidates == { Rat(n, d) : n \in 1..4, d \in 1..4 }

\* The q-th root of base, on the inputs whose root is rational.
Root(base, q) == CHOOSE r \in RootCandidates : RPow(r, q) = base

\* base.powf(p) for a rational exponent p = <<n, d>>.
Powf(base, p) == RPow(Root(base, p[2]), p[1])

-----------------------------------------------------------------------------
(* value.rs: Currency, Value, ConversionTable *)

Currencies == {"CAD", "USD", "COP"}
Factors == {<<2, 1>>, <<3, 1>>}

\* Option<&'static ConversionTable>: the shared table, a fresh empty table
\* (Value::dummy), or None.
Tables == {"shared", "dummy", "none"}

NoRate == <<0, 0>>

MkValue(amt, cur, tab) == [amount |-> amt, currency |-> cur, table |-> tab]

\* A panic unwinding out of the operation, and Option::None.
Panic == MkValue(Zero, "!panic", "none")
NoneValue == MkValue(Zero, "!none", "none")
IsPanic(v) == v.currency = "!panic"

EmptyMap == <<>>

Insert(m, k, v) == (k :> v) @@ m

Lookup(m, source, target) ==
    IF source \in DOMAIN m /\ target \in DOMAIN m[source]
    THEN m[source][target]
    ELSE NoRate

\* ConversionTable::add_conversion (value.rs).
AddConversionMap(m, source, target, factor) ==
    LET m1 == IF source \notin DOMAIN m THEN Insert(m, source, EmptyMap) ELSE m
        m2 == IF target \notin DOMAIN m1 THEN Insert(m1, target, EmptyMap) ELSE m1
        m3 == Insert(m2, source, Insert(m2[source], target, factor))
    IN  Insert(m3, target, Insert(m3[target], source, RDiv(One, factor)))

\* The table a Value's conversion_table field refers to.
TableOf(tab) == IF tab = "shared" THEN mappings ELSE EmptyMap

\* ConversionTable::convert (value.rs) on the table `tab`.
Convert(tab, value, target) ==
    LET r == Lookup(TableOf(tab), value.currency, target)
    IN  IF r = NoRate THEN NoneValue
        ELSE MkValue(RMul(r, value.amount), target, tab)

\* impl Mul<f64> for Value.
ValueMul(v, rhs) ==
    IF IsPanic(v) THEN Panic
    ELSE MkValue(RMul(v.amount, rhs), v.currency, v.table)

\* Value::negate.
Negate(v) == MkValue(RMul(v.amount, <<-1, 1>>), v.currency, v.table)

\* impl Add<Value> for Value, with the sum tagged by the right-hand currency
\* without converting.
ValueAddNoConvert(self, rhs) ==
    IF IsPanic(self) \/ IsPanic(rhs) THEN Panic
    ELSE MkValue(RAdd(self.amount, rhs.amount), rhs.currency, self.table)

\* impl Add<Value> for Value.
RECURSIVE ValueAdd(_, _)
ValueAdd(self, rhs) ==
    IF IsPanic(self) \/ IsPanic(rhs) THEN Panic
    ELSE IF self.currency = rhs.currency
    THEN MkValue(RAdd(self.amount, rhs.amount), rhs.currency, self.table)
    ELSE IF self.table = "none" THEN Panic
    ELSE LET c == Convert(self.table, rhs, self.currency)
         IN  IF c = NoneValue THEN Panic ELSE ValueAdd(c, self)

\* Fast2Sum.
fast2sum(a, b) ==
    LET s == RAdd(a, b)
        z == RSub(s, a)
        t == RSub(b, z)
    IN  <<s, t>>

RECURSIVE KahanLoop(_, _, _, _, _, _)
KahanLoop(items, i, sum, c, cur, tab) ==
    IF i > Len(items) THEN MkValue(sum, cur, tab)
    ELSE IF IsPanic(items[i]) THEN Panic
    ELSE LET y == RAdd(items[i].amount, c)
             sc == fast2sum(sum, y)
         IN  KahanLoop(items, i + 1, sc[1], sc[2],
                       items[i].currency, items[i].table)

\* let mut cur = Currency("CAD"): the currency of a sum of no terms.
DefaultCurrency == "CAD"

\* kahan_sum tagging the sum with the currency of its first term.
kahan_sum_first(items) ==
    LET r == KahanLoop(items, 1, Zero, Zero, DefaultCurrency, "none")
    IN  IF items = <<>> \/ IsPanic(r) THEN r
        ELSE MkValue(r.amount, items[1].currency, items[1].table)

\* kahan_sum over the Values of a sequence.
kahan_sum(items) == KahanLoop(items, 1, Zero, Zero, DefaultCurrency, "none")

-----------------------------------------------------------------------------
(* convert.rs: ConversionTable over RwLock<Vec<(Currency, Currency, f64)>> *)

RECURSIVE FindFrom(_, _, _, _)
FindFrom(ex, i, from, to) ==
    IF i > Len(ex) THEN 0
    ELSE IF ex[i][1] = from /\ ex[i][2] = to THEN i
    ELSE FindFrom(ex, i + 1, from, to)

\* handle.iter().find(..): the index of the first matching triple, 0 if none.
Find(ex, from, to) == FindFrom(ex, 1, from, to)

\* ConversionTable::convert (convert.rs), on the Vec read under the lock.
ExConvert(ex, value, target) ==
    LET i == Find(ex, value.currency, target)
    IN  IF i = 0 THEN NoneValue
        ELSE MkValue(RMul(value.amount, ex[i][3]), target, "dummy")

-----------------------------------------------------------------------------
(* item.rs: Interest and Item (book.rs holds an identical copy of both) *)

NoInterest == [some |-> FALSE, percent |-> Zero, period |-> 1]

\* Interest::new.
SomeInterest(percent, period) ==
    [some |-> TRUE, percent |-> percent, period |-> period]

\* Interest::apply with simple instead of compound interest.
ApplySimple(interest, inception, current_time, value) ==
    LET delta == current_time - inception
        periods == Rat(delta, interest.period)
    IN  ValueMul(value, RAdd(One, RMul(interest.percent, periods)))

\* Interest::apply.
Apply(interest, inception, current_time, value) ==
    LET delta == current_time - inception
        periods == Rat(delta, interest.period)
    IN  ValueMul(value, Powf(RAdd(One, interest.percent), periods))

\* Interest::interest.
InterestOnly(interest, inception, current_time, value) ==
    ValueAdd(Apply(interest, inception, current_time, value), Negate(value))

\* Item::fixed.
Fixed(value, inception) ==
    [book_value |-> value, children |-> <<>>, inception |-> inception,
     interest |-> NoInterest, deltas |-> <<>>]

\* Item::basic_debt.
BasicDebt(value, percent, period, inception) ==
    [book_value |-> value, children |-> <<>>, inception |-> inception,
     interest |-> SomeInterest(percent, period), deltas |-> <<>>]

\* Where a stable sort by key puts x, coming after `sorted`.
InsertSorted(sorted, x) ==
    LET n == Cardinality({ i \in 1..Len(sorted) : sorted[i][1] <= x[1] })
    IN  SubSeq(sorted, 1, n) \o <<x>> \o SubSeq(sorted, n + 1, Len(sorted))

\* Vec::sort_by_key(|(f, _)| *f): a stable sort, ascending by timestamp.
RECURSIVE SortByKey(_)
SortByKey(seq) ==
    IF seq = <<>> THEN <<>>
    ELSE InsertSorted(SortByKey(SubSeq(seq, 1, Len(seq) - 1)), seq[Len(seq)])

\* Item::add_delta without the sort.
add_delta_unsorted(it, time, value) ==
    [it EXCEPT !.deltas = Append(@, <<time, value>>)]

\* Item::add_delta pushing at the front, without the sort.
add_delta_pushed(it, time, value) ==
    [it EXCEPT !.deltas = <<<<time, value>>>> \o @]

\* Item::add_delta keeping one delta per timestamp.
add_delta_replacing(it, time, value) ==
    [it EXCEPT !.deltas =
        SortByKey(Append(SelectSeq(@, LAMBDA d : d[1] # time),
                         <<time, value>>))]

\* Item::add_delta.
add_delta(it, time, value) ==
    [it EXCEPT !.deltas = SortByKey(Append(@, <<time, value>>))]

\* Item::add_child.
item_add_child(it, key) == [it EXCEPT !.children = Append(@, key)]

DeltaValues(deltas) == [ i \in 1..Len(deltas) |-> deltas[i][2] ]

\* The for loop of Item::assess from delta i on, and the final compounding.
RECURSIVE AssessLoop(_, _, _, _, _)
AssessLoop(it, time, i, book, incep) ==
    IF i > Len(it.deltas) \/ it.deltas[i][1] > time
    THEN Apply(it.interest, incep, time, book)
    ELSE LET rtime == it.deltas[i][1]
             payment == it.deltas[i][2]
             assessed == Apply(it.interest, incep, rtime, book)
         IN  AssessLoop(it, time, i + 1, ValueAdd(assessed, payment), rtime)

\* Item::assess, the branch with deltas and no interest, taking only the
\* deltas dated up to `time`.
AssessNoInterestUpTo(it, time) ==
    LET kept == SelectSeq(it.deltas, LAMBDA d : d[1] <= time)
    IN  ValueAdd(it.book_value, kahan_sum(DeltaValues(kept)))

\* Item::assess, the branch with deltas and no interest.
AssessNoInterest(it, time) ==
    ValueAdd(it.book_value, kahan_sum(DeltaValues(it.deltas)))

\* Item::assess.
Assess(it, time) ==
    IF it.deltas = <<>>
    THEN IF it.interest.some
         THEN Apply(it.interest, it.inception, time, it.book_value)
         ELSE it.book_value
    ELSE IF it.interest.some
         THEN AssessLoop(it, time, 1, it.book_value, it.inception)
         ELSE AssessNoInterest(it, time)

\* Item::currency.
ItemCurrency(it) == it.book_value.currency

-----------------------------------------------------------------------------
(* book.rs: Book *)

\* Book::add: the new entries; the key returned is the new slot, Len + 1.
book_add(es, new) == Append(es, new)

\* Whether entries.get_mut(parent) resolves.
Resolves(es, parent) == parent \in 1..Len(es)

\* Book::add_child: the entries it leaves behind.  The insert comes first,
\* so when the parent does not resolve the unwrap panics with the new item in.
book_add_child(es, new, parent) ==
    LET es1 == Append(es, new)
        key == Len(es1)
    IN  IF Resolves(es1, parent)
        THEN [es1 EXCEPT ![parent] = item_add_child(@, key)]
        ELSE es1

\* Book::assess leaving out the entries that are some entry's child.
BookAssessRoots(es, time) ==
    LET isChild(k) == \E i \in 1..Len(es) :
                        \E j \in 1..Len(es[i].children) : es[i].children[j] = k
        roots == SelectSeq([ i \in 1..Len(es) |-> i ], LAMBDA k : ~isChild(k))
    IN  kahan_sum([ i \in 1..Len(roots) |-> Assess(es[roots[i]], time) ])

\* Book::assess.
BookAssess(es, time) ==
    kahan_sum([ i \in 1..Len(es) |-> Assess(es[i], time) ])

\* Book::currency (entries.iter().nth(0).unwrap()).
BookCurrency(es) == IF es = <<>> THEN "!panic" ELSE ItemCurrency(es[1])

-----------------------------------------------------------------------------
(* risk.rs: Risk<A> around an Item, as the layers from the innermost out *)

CertainLossPercentage(percent) ==
    [kind |-> "CertainLossPercentage", percent |-> percent,
     period |-> 1, starting |-> 0]

LosePercentOverTime(percent, period, starting) ==
    [kind |-> "LosePercentOverTime", percent |-> percent,
     period |-> period, starting |-> starting]

\* The loss multiplier of a LosePercentOverTime layer at `time`.
LossFactor(layer, time) ==
    LET periods == Rat(time - layer.starting, layer.period)
    IN  Powf(RSub(One, layer.percent), periods)

\* One arm of Risk::assess without the check of the starting date.
LayerAssessUngated(layer, inner, time) ==
    IF layer.kind = "CertainLossPercentage"
    THEN ValueMul(inner, layer.percent)
    ELSE ValueMul(inner, LossFactor(layer, time))

\* One arm of Risk::assess, given asset.assess(time).
LayerAssess(layer, inner, time) ==
    IF layer.kind = "CertainLossPercentage"
    THEN ValueMul(inner, layer.percent)
    ELSE IF layer.starting > time THEN inner
    ELSE ValueMul(inner, LossFactor(layer, time))

\* Risk::assess of the top n layers around the item.
RECURSIVE RiskAssess(_, _, _, _)
RiskAssess(layers, n, it, time) ==
    IF n = 0 THEN Assess(it, time)
    ELSE LayerAssess(layers[n], RiskAssess(layers, n - 1, it, time), time)

\* Risk::currency.
RECURSIVE RiskCurrency(_, _, _)
RiskCurrency(layers, n, it) ==
    IF n = 0 THEN ItemCurrency(it) ELSE RiskCurrency(layers, n - 1, it)

-----------------------------------------------------------------------------
(* Outcomes of operations, and the values the variables of one component   *)
(* keep while another component is exercised                               *)

Times == 0..MaxTime

NoValue == MkValue(Zero, "CAD", "none")

MkOut(op, a, b, time, result) ==
    [op |-> op, a |-> a, b |-> b, time |-> time, result |-> result, key |-> 0]

\* The outcome of an operation that returns an ItemKey (0: none returned).
MkKeyOut(op, key, result) ==
    [op |-> op, a |-> NoValue, b |-> NoValue, time |-> 0, result |-> result,
     key |-> key]

NoOut == MkOut("none", NoValue, NoValue, 0, NoValue)

\* ok: a Value came back; none: Option::None came back; panic: the call
\* unwound.
Outcome(v) ==
    IF IsPanic(v) THEN "panic" ELSE IF v = NoneValue THEN "none" ELSE "ok"

IdleItem == Fixed(NoValue, 0)
Threads == {1, 2}
IdleLock == [writer |-> 0, readers |-> {}]
IdleCall == [source |-> "CAD", target |-> "CAD", factor |-> One,
             value |-> NoValue, result |-> NoValue]

\* The rates of the table the Items and Values of the valuation share.
SharedRates ==
    AddConversionMap(EmptyMap, "USD", "CAD", <<2, 1>>)

TableIdle ==
    /\ mappings = SharedRates
    /\ freed = TRUE
    /\ regLog = <<>>

ExchangeIdle ==
    /\ exchange = <<>>
    /\ exLog = <<>>
    /\ lock = IdleLock
    /\ pc = [th \in Threads |-> "idle"]
    /\ call = [th \in Threads |-> IdleCall]

ItemIdle ==
    /\ item = IdleItem
    /\ appended = <<>>

tableVars == <<mappings, freed, regLog>>
exchangeVars == <<exchange, exLog, lock, pc, call>>
itemVars == <<item, appended>>

-----------------------------------------------------------------------------
(* The value.rs table and Value arithmetic: add_conversion calls while the *)
(* table is built, free(), and then conversions and additions              *)

\* The Values handed to convert and to +.
Amount == <<3, 1>>
SharedValues == { MkValue(Amount, c, "shared") : c \in Currencies }
LeftValues ==
    SharedValues \cup {MkValue(Amount, "CAD", "dummy"), kahan_sum(<<>>)}

\* The currencies named first in an add_conversion call.
Sources == {"CAD", "USD"}

TableInit ==
    /\ mappings = EmptyMap
    /\ freed = FALSE
    /\ regLog = <<>>
    /\ ExchangeIdle
    /\ ItemIdle
    /\ entries = <<>>
    /\ risk = <<>>
    /\ out = NoOut

AddConversion(source, target, factor) ==
    /\ ~freed
    /\ Len(regLog) < MaxRegs
    /\ mappings' = AddConversionMap(mappings, source, target, factor)
    /\ regLog' = Append(regLog, <<source, target, factor>>)
    /\ UNCHANGED <<freed, exchangeVars, itemVars, entries, risk, out>>

Free ==
    /\ ~freed
    /\ freed' = TRUE
    /\ UNCHANGED <<mappings, regLog, exchangeVars, itemVars, entries, risk, out>>

ConvertValue(tab, value, target) ==
    /\ freed
    /\ out' = MkOut("convert", value, MkValue(Zero, target, tab), 0,
                    Convert(tab, value, target))
    /\ UNCHANGED <<tableVars, exchangeVars, itemVars, entries, risk>>

AddValues(a, b) ==
    /\ freed
    /\ out' = MkOut("add", a, b, 0, ValueAdd(a, b))
    /\ UNCHANGED <<tableVars, exchangeVars, itemVars, entries, risk>>

TableNext ==
    \/ \E s \in Sources, t \in Currencies, f \in Factors :
          AddConversion(s, t, f)
    \/ Free
    \/ \E tab \in {"shared", "dummy"}, v \in SharedValues, t \in Currencies :
          ConvertValue(tab, v, t)
    \/ \E a \in LeftValues, b \in SharedValues : AddValues(a, b)

SpecTable == TableInit /\ [][TableNext]_vars

\* The factor the most recent call of the log left for source -> target.
\* A call writes its reverse entry last, so a call naming the pair in both
\* directions (source = target) leaves 1/f.
RECURSIVE LatestFrom(_, _, _, _)
LatestFrom(log, i, source, target) ==
    IF i = 0 THEN NoRate
    ELSE IF log[i][1] = target /\ log[i][2] = source
    THEN RDiv(One, log[i][3])
    ELSE IF log[i][1] = source /\ log[i][2] = target
    THEN log[i][3]
    ELSE LatestFrom(log, i - 1, source, target)

LatestFactor(log, source, target) == LatestFrom(log, Len(log), source, target)

\* C6: a + b has amount a.amount + b.amount in the shared currency; with
\* different currencies it has amount a.amount + b.amount * rate in a's
\* currency, rate being the rate registered for b.currency -> a.currency in
\* a's table; with no such rate the addition fails.
C6_AddConvertsRightIntoLeft ==
    out.op = "add" =>
        LET a == out.a
            b == out.b
            r == out.result
            rate == Lookup(TableOf(a.table), b.currency, a.currency)
        IN  /\ a.currency = b.currency =>
                  /\ Outcome(r) = "ok"
                  /\ r.amount = RAdd(a.amount, b.amount)
                  /\ r.currency = a.currency
            /\ (a.currency # b.currency /\ rate # NoRate) =>
                  /\ Outcome(r) = "ok"
                  /\ r.amount = RAdd(a.amount, RMul(b.amount, rate))
                  /\ r.currency = a.currency
            /\ (a.currency # b.currency /\ rate = NoRate) =>
                  Outcome(r) # "ok"

C6_Witness ==
    /\ out.op = "add"
    /\ out.a.currency # out.b.currency
    /\ Outcome(out.result) = "ok"
    /\ out.result.amount # RAdd(out.a.amount, out.b.amount)

\* C7: a conversion or an addition that meets a pair of currencies with no
\* registered rate hands its caller an error outcome (here Option::None)
\* and does not unwind.
C7_NoRouteIsRecoverable ==
    (/\ out.op \in {"add", "convert"}
     /\ out.a.currency # out.b.currency
     /\ Lookup(TableOf(IF out.op = "add" THEN out.a.table ELSE out.b.table),
               IF out.op = "add" THEN out.b.currency ELSE out.a.currency,
               IF out.op = "add" THEN out.a.currency ELSE out.b.currency)
          = NoRate)
    => Outcome(out.result) = "none"

\* The value.rs table does overwrite: convert uses the factor of the most
\* recent add_conversion call that set the pair.
ValueTableUsesLatestFactor ==
    \A s \in Currencies, t \in Currencies :
        Lookup(mappings, s, t) = LatestFactor(regLog, s, t)

-----------------------------------------------------------------------------
(* The convert.rs table: threads calling add_conversion and convert on the *)
(* shared table, one step per lock operation and per access to the Vec     *)

ExCurrencies == {"CAD", "USD"}
ExValues == { MkValue(Amount, c, "dummy") : c \in ExCurrencies }

\* RwLock::read grants the lock whatever the writer holds.
CanReadAlways(l) == TRUE

\* RwLock::read is granted while no writer holds the lock.
CanRead(l) == l.writer = 0

\* RwLock::write is granted while nobody holds the lock.
CanWrite(l) == l.writer = 0 /\ l.readers = {}

ExchangeInit ==
    /\ ExchangeIdle
    /\ TableIdle
    /\ ItemIdle
    /\ entries = <<>>
    /\ risk = <<>>
    /\ out = NoOut

\* add_conversion: self.mappings.write().unwrap()
AcquireWrite(th, source, target, factor) ==
    /\ pc[th] = "idle"
    /\ Len(exLog) < MaxCalls
    /\ CanWrite(lock)
    /\ lock' = [lock EXCEPT !.writer = th]
    /\ pc' = [pc EXCEPT ![th] = "w_locked"]
    /\ call' = [call EXCEPT ![th] = [IdleCall EXCEPT !.source = source,
                                       !.target = target, !.factor = factor]]
    /\ exLog' = Append(exLog, <<source, target, factor>>)
    /\ UNCHANGED <<exchange, tableVars, itemVars, entries, risk, out>>

\* add_conversion: mappings.push((source, target, factor))
PushForward(th) ==
    /\ pc[th] = "w_locked"
    /\ exchange' = Append(exchange,
                          <<call[th].source, call[th].target, call[th].factor>>)
    /\ pc' = [pc EXCEPT ![th] = "w_pushed"]
    /\ UNCHANGED <<exLog, lock, call, tableVars, itemVars, entries, risk, out>>

\* add_conversion: mappings.push((target, source, 1.0 / factor))
PushReverse(th) ==
    /\ pc[th] = "w_pushed"
    /\ exchange' = Append(exchange, <<call[th].target, call[th].source,
                                      RDiv(One, call[th].factor)>>)
    /\ pc' = [pc EXCEPT ![th] = "w_done"]
    /\ UNCHANGED <<exLog, lock, call, tableVars, itemVars, entries, risk, out>>

\* add_conversion returns: the write guard is dropped.
ReleaseWrite(th) ==
    /\ pc[th] = "w_done"
    /\ lock' = [lock EXCEPT !.writer = 0]
    /\ pc' = [pc EXCEPT ![th] = "idle"]
    /\ call' = [call EXCEPT ![th] = IdleCall]
    /\ UNCHANGED <<exchange, exLog, tableVars, itemVars, entries, risk, out>>

\* convert: self.mappings.read().unwrap()
AcquireRead(th, value, target) ==
    /\ pc[th] = "idle"
    /\ CanRead(lock)
    /\ lock' = [lock EXCEPT !.readers = @ \cup {th}]
    /\ pc' = [pc EXCEPT ![th] = "r_locked"]
    /\ call' = [call EXCEPT ![th] = [IdleCall EXCEPT !.value = value,
                                       !.target = target]]
    /\ UNCHANGED <<exchange, exLog, tableVars, itemVars, entries, risk, out>>

\* convert: handle.iter().find(..)? and the Value it builds.
FindRate(th) ==
    /\ pc[th] = "r_locked"
    /\ call' = [call EXCEPT ![th].result =
                    ExConvert(exchange, call[th].value, call[th].target)]
    /\ pc' = [pc EXCEPT ![th] = "r_found"]
    /\ UNCHANGED <<exchange, exLog, lock, tableVars, itemVars, entries, risk, out>>

\* convert returns: the read guard is dropped.
ReleaseRead(th) ==
    /\ pc[th] = "r_found"
    /\ lock' = [lock EXCEPT !.readers = @ \ {th}]
    /\ pc' = [pc EXCEPT ![th] = "idle"]
    /\ out' = MkOut("ex_convert", call[th].value,
                    MkValue(Zero, call[th].target, "none"), 0, call[th].result)
    /\ call' = [call EXCEPT ![th] = IdleCall]
    /\ UNCHANGED <<exchange, exLog, tableVars, itemVars, entries, risk>>

ExchangeNext ==
    \E th \in Threads :
        \/ \E s \in ExCurrencies, f \in Factors :
              \E t \in ExCurrencies \ {s} : AcquireWrite(th, s, t, f)
        \/ PushForward(th)
        \/ PushReverse(th)
        \/ ReleaseWrite(th)
        \/ \E v \in ExValues, t \in ExCurrencies : AcquireRead(th, v, t)
        \/ FindRate(th)
        \/ ReleaseRead(th)

SpecExchange == ExchangeInit /\ [][ExchangeNext]_vars

Writing == { th \in Threads : pc[th] \in {"w_locked", "w_pushed", "w_done"} }
Reading == { th \in Threads : pc[th] \in {"r_locked", "r_found"} }

\* C8: with no registration in progress, convert on the shared table uses,
\* for every pair, the factor of the most recent add_conversion call that
\* set the pair, and never an older one.
C8_ConvertUsesLatestFactor ==
    lock.writer = 0 =>
        \A s \in ExCurrencies, t \in ExCurrencies :
            LET r == ExConvert(exchange, MkValue(One, s, "dummy"), t)
                f == LatestFactor(exLog, s, t)
            IN  IF f = NoRate THEN r = NoneValue
                ELSE r = MkValue(f, t, "dummy")

\* C9: a convert call that holds the read lock never sees source -> target
\* registered without target -> source, and a writer excludes every reader
\* and every other writer.
C9_RegistrationIsAtomic ==
    /\ \A th \in Threads :
          pc[th] = "r_locked" =>
              \A i \in 1..Len(exchange) :
                  Find(exchange, exchange[i][2], exchange[i][1]) # 0
    /\ Cardinality(Writing) <= 1
    /\ Writing # {} => Reading = {}

C9_Witness ==
    /\ Cardinality({ th \in Threads : pc[th] = "r_locked" }) = 2
    /\ Len(exchange) >= 4

-----------------------------------------------------------------------------
(* One Item: constructed, then add_delta and assess in any order *)

Principal == <<-4, 1>>
BookValues == { MkValue(Principal, "CAD", tab) : tab \in {"shared", "dummy"} }
Payments == {MkValue(One, "CAD", "dummy"), MkValue(<<2, 1>>, "USD", "shared")}
Inceptions == {1}

\* (percent, period) of the interest models: 50% a tick, 300% every 2 ticks.
Rates == {<<<<1, 2>>, 1>>, <<<<3, 1>>, 2>>}

NewItems ==
    { Fixed(v, t0) : v \in BookValues, t0 \in Inceptions }
    \cup { BasicDebt(v, r[1], r[2], t0) :
             v \in BookValues, r \in Rates, t0 \in Inceptions }

ItemInit ==
    /\ item \in NewItems
    /\ appended = <<>>
    /\ TableIdle
    /\ ExchangeIdle
    /\ entries = <<>>
    /\ risk = <<>>
    /\ out = NoOut

AddDelta(time, value) ==
    /\ Len(item.deltas) < MaxDeltas
    /\ item' = add_delta(item, time, value)
    /\ appended' = Append(appended, <<time, value>>)
    /\ out' = NoOut
    /\ UNCHANGED <<tableVars, exchangeVars, entries, risk>>

AssessItem(time) ==
    /\ out' = MkOut("assess", item.book_value, NoValue, time, Assess(item, time))
    /\ UNCHANGED <<tableVars, exchangeVars, itemVars, entries, risk>>

ItemNext ==
    \/ \E t \in Times, v \in Payments : AddDelta(t, v)
    \/ \E t \in Times : AssessItem(t)

SpecItem == ItemInit /\ [][ItemNext]_vars

\* The deltas appended so far that are dated up to t, ascending by
\* timestamp.
Due(t) == SortByKey(SelectSeq(appended, LAMBDA d : d[1] <= t))

\* The running book and anchor after the deltas seq[i..] are applied.
RECURSIVE Replay(_, _, _, _, _)
Replay(interest, seq, i, book, anchor) ==
    IF i > Len(seq) THEN <<book, anchor>>
    ELSE Replay(interest, seq, i + 1,
                ValueAdd(Apply(interest, anchor, seq[i][1], book), seq[i][2]),
                seq[i][1])

\* C1: with interest and deltas, assess(t) replays exactly the deltas dated
\* up to t (t included) in ascending order and compounds from the last
\* anchor to t; it equals assess(t) of the item without its deltas dated
\* after t.
C1_AssessAppliesDeltasUpToTime ==
    (out.op = "assess" /\ item.interest.some /\ item.deltas # <<>>) =>
        LET t == out.time
            end == Replay(item.interest, Due(t), 1, item.book_value,
                          item.inception)
            cut == [item EXCEPT
                      !.deltas = SelectSeq(@, LAMBDA d : d[1] <= t)]
        IN  /\ out.result = Apply(item.interest, end[2], t, end[1])
            /\ out.result = Assess(cut, t)

C1_Witness ==
    /\ out.op = "assess"
    /\ item.interest.some
    /\ Outcome(out.result) = "ok"
    /\ \E i \in 1..Len(item.deltas) : item.deltas[i][1] = out.time
    /\ \E i \in 1..Len(item.deltas) : item.deltas[i][1] > out.time
    /\ appended # item.deltas

\* C2: with interest and no deltas, assess(t0 + k*T) is P * (1 + r)^k in
\* the item's currency, for every k >= 0.
C2_CompoundsPerPeriod ==
    (/\ out.op = "assess"
     /\ item.interest.some
     /\ item.deltas = <<>>
     /\ out.time >= item.inception
     /\ (out.time - item.inception) % item.interest.period = 0)
    => LET k == (out.time - item.inception) \div item.interest.period
       IN  /\ out.result.amount =
                  RMul(item.book_value.amount,
                       RPow(RAdd(One, item.interest.percent), k))
           /\ out.result.currency = item.book_value.currency

C2_Witness ==
    /\ out.op = "assess"
    /\ item.interest.some
    /\ item.deltas = <<>>
    /\ item.interest.period = 2
    /\ out.time = item.inception + 2
    /\ out.result.amount = <<-16, 1>>

RECURSIVE SumAmounts(_, _)
SumAmounts(seq, i) ==
    IF i > Len(seq) THEN Zero ELSE RAdd(seq[i][2].amount, SumAmounts(seq, i + 1))

\* C3: without interest, assess(t) is the book value plus the sum of all
\* the deltas, whatever their timestamps, and is the same for every t.
C3_NoInterestCountsEveryDelta ==
    (out.op = "assess" /\ ~item.interest.some) =>
        /\ \A t \in Times : Assess(item, t) = out.result
        /\ (\A i \in 1..Len(appended) :
                appended[i][2].currency = item.book_value.currency)
           => /\ out.result.amount =
                     RAdd(item.book_value.amount, SumAmounts(appended, 1))
              /\ out.result.currency = item.book_value.currency
        /\ item.deltas # <<>> =>
              out.result = ValueAdd(item.book_value,
                                    kahan_sum(DeltaValues(item.deltas)))

C3_Witness ==
    /\ out.op = "assess"
    /\ ~item.interest.some
    /\ Outcome(out.result) = "ok"
    /\ Len(item.deltas) >= 2
    /\ \A i \in 1..Len(item.deltas) : item.deltas[i][1] > out.time
    /\ out.result.amount # item.book_value.amount

\* The orders in which n calls can be made.
Orders(n) ==
    { f \in [1..n -> 1..n] : \A i, j \in 1..n : f[i] = f[j] => i = j }

\* The item after add_delta was called with the deltas seq[f[1]], seq[f[2]], ...
RECURSIVE Appending(_, _, _, _)
Appending(it, seq, f, i) ==
    IF i > Len(seq) THEN it
    ELSE Appending(add_delta(it, seq[f[i]][1], seq[f[i]][2]), seq, f, i + 1)

SameAssessInEveryOrder ==
    \* (it does not read out: the states right after a call cover every item)
    out.op = "none" =>
    \A f \in Orders(Len(appended)) :
        LET other == Appending([item EXCEPT !.deltas = <<>>], appended, f, 1)
        IN  \A t \in Times : Assess(other, t) = Assess(item, t)

\* C4 as claimed: the same deltas appended in any order give the same
\* assess(t) for every t.
C4_AnyOrderSameAssess == SameAssessInEveryOrder

\* C4, amended: the same deltas appended in any order give the same
\* assess(t) for every t, provided no two different deltas share a
\* timestamp.
C4_DistinctTimesAnyOrderSameAssess ==
    (\A i, j \in 1..Len(appended) :
        appended[i][1] = appended[j][1] => appended[i] = appended[j])
    => SameAssessInEveryOrder

C4_Witness ==
    /\ Len(appended) = 2
    /\ appended[1][1] > appended[2][1]
    /\ appended[1][2].currency # appended[2][2].currency
    /\ Outcome(Assess(item, appended[1][1])) = "ok"

-----------------------------------------------------------------------------
(* One Book: add, add_child and assess in any order *)

House == BasicDebt(MkValue(<<3, 1>>, "CAD", "shared"), <<1, 2>>, 1, 1)
Card ==
    add_delta(BasicDebt(MkValue(Principal, "CAD", "shared"), <<3, 1>>, 2, 1),
              2, MkValue(One, "CAD", "dummy"))
Cash == Fixed(MkValue(<<2, 1>>, "USD", "shared"), 0)
BookItems == {House, Card, Cash}

BookInit ==
    /\ entries = <<>>
    /\ TableIdle
    /\ ExchangeIdle
    /\ ItemIdle
    /\ risk = <<>>
    /\ out = NoOut

BookAdd(new) ==
    /\ Len(entries) < MaxEntries
    /\ entries' = book_add(entries, new)
    /\ out' = MkKeyOut("add", Len(entries) + 1, NoValue)
    /\ UNCHANGED <<tableVars, exchangeVars, itemVars, risk>>

BookAddChild(new, parent) ==
    /\ Len(entries) < MaxEntries
    /\ parent <= Len(entries)
    /\ entries' = book_add_child(entries, new, parent)
    /\ out' = IF Resolves(Append(entries, new), parent)
              THEN MkKeyOut("add_child", Len(entries) + 1, NoValue)
              ELSE MkKeyOut("add_child", 0, Panic)
    /\ UNCHANGED <<tableVars, exchangeVars, itemVars, risk>>

BookAssessAt(time) ==
    /\ out' = MkOut("book_assess", NoValue, NoValue, time,
                    BookAssess(entries, time))
    /\ UNCHANGED <<tableVars, exchangeVars, itemVars, entries, risk>>

BookNext ==
    \/ \E new \in BookItems : BookAdd(new)
    \/ \E new \in BookItems, parent \in 0..MaxEntries :
          BookAddChild(new, parent)
    \/ \E t \in Times : BookAssessAt(t)

SpecBook == BookInit /\ [][BookNext]_vars

\* The book the same items give when each is inserted with add.
Flat == [ i \in 1..Len(entries) |-> [entries[i] EXCEPT !.children = <<>>] ]

\* The amounts of the entries' values at `time`, added from the last slot
\* down to the first.
RECURSIVE AmountsFrom(_, _)
AmountsFrom(i, time) ==
    IF i = 0 THEN Zero
    ELSE RAdd(Assess(entries[i], time).amount, AmountsFrom(i - 1, time))

\* C5: Book::assess(t) is the sum of assess(t) over every entry, each
\* counted once whatever the parent/child links: the total is that of the
\* same items inserted with add, and an entry's own value does not include
\* its children.
C5_BookSumsEveryEntryOnce ==
    out.op = "book_assess" =>
        LET t == out.time
        IN  /\ out.result = BookAssess(Flat, t)
            /\ \A i \in 1..Len(entries) :
                  Assess(entries[i], t) = Assess(Flat[i], t)
            /\ Outcome(out.result) = "ok" =>
                  out.result.amount = AmountsFrom(Len(entries), t)

C5_Witness ==
    /\ out.op = "book_assess"
    /\ Outcome(out.result) = "ok"
    /\ Len(entries) = 3
    /\ entries[1].children = <<2, 3>>
    /\ \A i \in 1..3 : Assess(entries[i], out.time).amount # Zero

-----------------------------------------------------------------------------
(* One Item wrapped in Risk layers *)

Car == Fixed(MkValue(<<4, 1>>, "CAD", "dummy"), 1)
RiskItems == {Car, House, Card}
Starts == {1, 2}

\* 50% lost at once; 50% a tick; 75% every 2 ticks.
Layers ==
    {CertainLossPercentage(<<1, 2>>)}
    \cup { LosePercentOverTime(<<1, 2>>, 1, st) : st \in Starts }
    \cup { LosePercentOverTime(<<3, 4>>, 2, st) : st \in Starts }

RiskInit ==
    /\ item \in RiskItems
    /\ appended = <<>>
    /\ risk = <<>>
    /\ TableIdle
    /\ ExchangeIdle
    /\ entries = <<>>
    /\ out = NoOut

\* Risk::X { asset: <the entity so far>, .. }
Wrap(layer) ==
    /\ Len(risk) < MaxLayers
    /\ risk' = Append(risk, layer)
    /\ out' = NoOut
    /\ UNCHANGED <<tableVars, exchangeVars, itemVars, entries>>

AssessRisk(time) ==
    /\ out' = MkOut("risk_assess", item.book_value, NoValue, time,
                    RiskAssess(risk, Len(risk), item, time))
    /\ UNCHANGED <<tableVars, exchangeVars, itemVars, entries, risk>>

RiskNext ==
    \/ \E layer \in Layers : Wrap(layer)
    \/ \E t \in Times : AssessRisk(t)

SpecRisk == RiskInit /\ [][RiskNext]_vars

\* C10: a LosePercentOverTime risk returns its asset's value unchanged
\* before the start date S; from S on it returns that value times
\* f = (1 - percent)^((t - S)/period), where f is 1 at S and strictly
\* decreasing in t; the currency is the asset's, through nested risks too.
C10_DecayStartsAtStart ==
    (/\ out.op = "risk_assess"
     /\ risk # <<>>
     /\ risk[Len(risk)].kind = "LosePercentOverTime")
    => LET top == risk[Len(risk)]
           t == out.time
           inner == RiskAssess(risk, Len(risk) - 1, item, t)
           f == LossFactor(top, t)
       IN  /\ t < top.starting => out.result = inner
           /\ t >= top.starting =>
                 /\ out.result = ValueMul(inner, f)
                 /\ RLt(Zero, f)
                 /\ RPow(f, top.period) =
                        RPow(RSub(One, top.percent), t - top.starting)
                 /\ \A t2 \in Times :
                       t2 > t => RLt(LossFactor(top, t2), f)
           /\ t = top.starting => out.result = inner
           /\ Outcome(out.result) = "ok" =>
                 /\ out.result.currency = inner.currency
                 /\ out.result.currency = ItemCurrency(item)
           /\ RiskCurrency(risk, Len(risk), item) = ItemCurrency(item)

C10_Witness ==
    /\ out.op = "risk_assess"
    /\ Len(risk) = 2
    /\ risk[1].kind = "LosePercentOverTime"
    /\ risk[2].kind = "LosePercentOverTime"
    /\ risk[2].period = 2
    /\ out.time = risk[2].starting + 1
    /\ Outcome(out.result) = "ok"
    /\ out.result.amount # Zero

-----------------------------------------------------------------------------
(* Summation, as Book::assess applies it to its entries' values *)

\* C11: the sum of a sequence of Values has the total of the terms' amounts
\* as they are, whatever their currencies, and the currency of the last
\* term; the sum of no terms is 0 in the default currency.  So the value of
\* an empty Book is 0 in the default currency and the value of a Book of
\* mixed currencies is the raw total in its last entry's currency.
C11_SumIsRawTotalInLastCurrency ==
    (out.op = "book_assess" /\ Outcome(out.result) = "ok") =>
        LET t == out.time
            n == Len(entries)
        IN  /\ out.result.amount = AmountsFrom(n, t)
            /\ n = 0 => /\ out.result.amount = Zero
                        /\ out.result.currency = DefaultCurrency
            /\ n > 0 => out.result.currency = Assess(entries[n], t).currency

C11_Witness ==
    /\ out.op = "book_assess"
    /\ Outcome(out.result) = "ok"
    /\ Len(entries) = 2
    /\ ItemCurrency(entries[1]) = "USD"
    /\ ItemCurrency(entries[2]) = "CAD"
    /\ out.result.currency = "CAD"
    /\ out.result.amount =
           RAdd(Assess(entries[1], out.time).amount,
                Assess(entries[2], out.time).amount)
    /\ Assess(entries[1], out.time).amount # Zero

-----------------------------------------------------------------------------
(* The deltas of an Item under add_delta *)

SortedByTime(seq) == \A i \in 1..(Len(seq) - 1) : seq[i][1] <= seq[i + 1][1]

Occurrences(seq, d) == Cardinality({ i \in 1..Len(seq) : seq[i] = d })

SameDeltas(s1, s2) ==
    /\ Len(s1) = Len(s2)
    /\ \A i \in 1..Len(s1) : Occurrences(s1, s1[i]) = Occurrences(s2, s1[i])

\* C12: after any add_delta calls (any timestamps in any order, before the
\* inception and repeated ones too) the deltas are sorted ascending by
\* timestamp and are exactly the deltas appended so far, each as often as
\* it was appended; add_delta changes no other field of the Item.
C12_DeltasSortedAndNothingElseChanged ==
    /\ [](SortedByTime(item.deltas) /\ SameDeltas(item.deltas, appended))
    /\ [][appended' # appended =>
            /\ [item' EXCEPT !.deltas = item.deltas] = item
            /\ Len(item'.deltas) = Len(item.deltas) + 1]_vars

C12_Witness ==
    /\ Len(appended) = 2
    /\ appended[1][1] = item.inception
    /\ appended[2][1] < item.inception
    /\ item.deltas = <<appended[2], appended[1]>>
    /\ item.interest.some

-----------------------------------------------------------------------------
(* Book::add_child, step by step *)

\* The step is an add_child call that returned a key: one entry was added
\* at the end and its key was appended to the children of one earlier entry,
\* nothing else changing.
AddedOneChild ==
    /\ Len(entries') = Len(entries) + 1
    /\ out'.key = Len(entries')
    /\ entries'[Len(entries')].children = <<>>
    /\ \E parent \in 1..Len(entries) :
          SubSeq(entries', 1, Len(entries)) =
              [entries EXCEPT ![parent].children = Append(@, out'.key)]

\* A successful add_child adds exactly one entry and appends its key to the
\* end of the parent's children only.
AddChildSuccessAddsOneEntry ==
    [][(out'.op = "add_child" /\ ~IsPanic(out'.result)) => AddedOneChild]_vars

\* C13: add_child is all-or-nothing: a call that fails because the parent
\* does not resolve leaves the entries as they were, and a call that
\* succeeds adds exactly one entry and appends its key to the end of the
\* parent's children only.
C13_AddChildAllOrNothing ==
    [][out'.op = "add_child" =>
          IF IsPanic(out'.result) THEN entries' = entries
          ELSE AddedOneChild]_vars

=============================================================================
